---- MODULE Spec2Model ----
(***************************************************************************)
(* TranslationPanel (debounced translation pipeline) of the healthcare     *)
(* translation assistant.                                                  *)
(*                                                                         *)
(* The component state is the five useState cells.  The useEffect with     *)
(* dependencies [originalText, sourceLanguage, targetLanguage, toast]      *)
(* keeps one setTimeout handle per render whose dependencies changed; its  *)
(* cleanup clears the handle of the previous run.  A timer that is still   *)
(* pending has, by the meaning of setTimeout(.., 500), been scheduled less *)
(* than the quiet interval ago: the step FireTimer is "500 ms have passed  *)
(* since the last change and the callback runs".                           *)
(***************************************************************************)
EXTENDS Integers, Sequences, FiniteSets, TLC

\* ---- bounds of the model ----
MaxRequests == 3
MaxBurst == 2
MaxToastIds == 4
MaxChatSends == 2
MaxClock == 2
MaxAnalyses == 2

\* ---- values ----
UNDEFINED == "<undefined>"
NONE == "<none>"
NoRequest == [text |-> NONE, sourceLanguage |-> NONE, targetLanguage |-> NONE]
Langs == {"en-US", "es-ES"}
Texts == {"", "Hello", "Hola"}
StatusOK == 200
StatusServerError == 500
RouteError == "Failed to translate text"

VARIABLES
  sourceLanguage,   \* useState("en-US")
  targetLanguage,   \* useState("es-ES")
  originalText,     \* useState("")
  translatedText,   \* useState("")
  isTranslating,    \* useState(false)
  timers,           \* pending setTimeout handles, each with the triple its closure captured
  inflight,         \* ids of the fetch calls whose response has not been handled
  nSent,            \* number of fetch calls made so far
  lastReq,          \* body of the most recent fetch call
  toastCount,       \* number of "Translation Failed" toasts raised so far
  latestReturn,     \* translation returned for the most recent fetch call, once it has returned
  allOk,            \* every response handled so far was a 2xx {translation} response
  burstSent,        \* fetch calls made since the last change of the triple
  burstLen,         \* changes of the triple since the last timer fired (capped)
  swapRun,          \* swapLanguages calls in a row with no other event between (1, 2, 1, ..)
  swapBase,         \* Session State before the first swap of the current run
  mounted           \* the component is in the tree (its effect cleanup has not run)

panelVars == <<sourceLanguage, targetLanguage, originalText, translatedText,
               isTranslating, timers, inflight, nSent, lastReq, toastCount,
               latestReturn, allOk, burstSent, burstLen, swapRun, swapBase,
               mounted>>

\* ---- the route handlers (one request at a time, no state between requests) ----
VARIABLES
  rtKind,           \* which handler the request goes to
  rtReq,            \* the request
  rtProv,           \* what model.generateContent does for this request
  rtResp            \* what the handler produced, once it has run

routeVars == <<rtKind, rtReq, rtProv, rtResp>>

\* ---- use-toast.ts: module state ----
VARIABLES
  memoryState,      \* let memoryState: State = { toasts: [] }
  toastTimeouts,    \* const toastTimeouts = new Map(): the ids that have an entry
  removalTimers,    \* per toast id, the setTimeout callbacks of addToRemoveQueue not yet run
  count             \* let count = 0

toastVars == <<memoryState, toastTimeouts, removalTimers, count>>

\* ---- ChatWindow: component state ----
VARIABLES
  messages,         \* useState([welcome])
  inputMessage,     \* useState("")
  isLoading,        \* useState(false)
  isRefreshing,     \* useState(false)
  chatInflight,     \* the fetch("/api/chat") calls whose response has not been handled
  chatSent,         \* number of fetch("/api/chat") calls made so far
  chatErrorToasts,  \* number of "Error" toasts raised so far
  chatRefreshToasts,\* number of "Chat Refreshed" toasts raised so far
  refreshTimers,    \* pending setTimeout(() => setIsRefreshing(false), 500) callbacks
  now               \* the clock read by new Date() / Date.now()

chatVars == <<messages, inputMessage, isLoading, isRefreshing, chatInflight,
              chatSent, chatErrorToasts, chatRefreshToasts, refreshTimers, now>>

\* MedicalReportPanel: its useState cells, the analysis requests in flight,
\* the number sent, and a record of the last handler that ran
VARIABLES
  medicalReport, analysis, isAnalyzing, selectedImage, selectedFile, error,
  analyzeInflight, analyzeSent, reportCleared, reportLast
reportVars == <<medicalReport, analysis, isAnalyzing, selectedImage,
                selectedFile, error, analyzeInflight, analyzeSent,
                reportCleared, reportLast>>

vars == <<panelVars, routeVars, toastVars, chatVars, reportVars>>

\* a step of one component leaves the state of the others alone
PanelFrame == UNCHANGED <<routeVars, toastVars, chatVars, reportVars>>
RouteFrame == UNCHANGED <<panelVars, toastVars, chatVars, reportVars>>
ToastFrame == UNCHANGED <<panelVars, routeVars, chatVars, reportVars>>
ChatFrame == UNCHANGED <<panelVars, routeVars, toastVars, reportVars>>
ReportFrame == UNCHANGED <<panelVars, routeVars, toastVars, chatVars>>

\* ---- values the other components start with ----
NoRouteRequest == [parses |-> FALSE, text |-> UNDEFINED, sourceLanguage |-> UNDEFINED,
                   targetLanguage |-> UNDEFINED, message |-> UNDEFINED,
                   file |-> NONE]
NoProvider == [throws |-> FALSE, text |-> NONE]
EmptyBody == [translation |-> UNDEFINED, response |-> UNDEFINED,
              analysis |-> UNDEFINED, error |-> UNDEFINED]
NoRouteResponse == [status |-> 0, body |-> EmptyBody, modelCalls |-> 0,
                    escaped |-> FALSE, handled |-> FALSE]
RouteIdle ==
  /\ rtKind = NONE
  /\ rtReq = NoRouteRequest
  /\ rtProv = NoProvider
  /\ rtResp = NoRouteResponse

ToastIds == 1..MaxToastIds
ToastInit ==
  /\ memoryState = [toasts |-> <<>>]
  /\ toastTimeouts = {}
  /\ removalTimers = [id \in ToastIds |-> 0]
  /\ count = 0

\* texts of the chat are sequences of characters (trim() looks at them);
\* a message id is "welcome" or Date.now().toString()
WELCOME_MESSAGE == <<"H", "e", "l", "l", "o", "!">>
WelcomeId == [welcome |-> TRUE, ms |-> 0]
DateNowId(t) == [welcome |-> FALSE, ms |-> t]
Welcome(t) == [id |-> WelcomeId, content |-> WELCOME_MESSAGE, isUser |-> FALSE,
               timestamp |-> t]
\* null of selectedImage and selectedFile
NULL == "<null>"
ReportInit ==
  /\ medicalReport = <<>>
  /\ analysis = ""
  /\ isAnalyzing = FALSE
  /\ selectedImage = NULL
  /\ selectedFile = NULL
  /\ error = ""
  /\ analyzeInflight = {}
  /\ analyzeSent = 0
  /\ reportCleared = FALSE
  /\ reportLast = "mount"

ChatInit ==
  /\ messages = <<Welcome(0)>>
  /\ inputMessage = <<>>
  /\ isLoading = FALSE
  /\ isRefreshing = FALSE
  /\ chatInflight = {}
  /\ chatSent = 0
  /\ chatErrorToasts = 0
  /\ chatRefreshToasts = 0
  /\ refreshTimers = 0
  /\ now = 0

\* ---- JavaScript truthiness of a string-or-undefined value ----
Falsy(v) == v = "" \/ v = UNDEFINED
Truthy(v) == ~Falsy(v)

Min(a, b) == IF a < b THEN a ELSE b

\* ---- what fetch("/api/translate") + response.json() can produce ----
\* fetch rejects; the route answers 200 {translation} or 500 {error}; something
\* in front of the route answers 502 with a body that is not JSON, or 429 with
\* a JSON body that has neither field.
Responses ==
  {[rejected |-> TRUE, status |-> 0, parses |-> FALSE,
    error |-> UNDEFINED, translation |-> UNDEFINED]}
  \cup {[rejected |-> FALSE, status |-> StatusOK, parses |-> TRUE,
         error |-> UNDEFINED, translation |-> t] : t \in Texts}
  \cup {[rejected |-> FALSE, status |-> StatusServerError, parses |-> TRUE,
         error |-> RouteError, translation |-> UNDEFINED]}
  \cup {[rejected |-> FALSE, status |-> 502, parses |-> FALSE,
         error |-> UNDEFINED, translation |-> UNDEFINED]}
  \cup {[rejected |-> FALSE, status |-> 429, parses |-> TRUE,
         error |-> UNDEFINED, translation |-> UNDEFINED]}

Is2xx(r) == ~r.rejected /\ r.status >= 200 /\ r.status < 300

\* ---- the effect: dependencies, cleanup, setTimeout ----
EffectDepsNoTarget(text, src, tgt) == <<text, src>>
EffectDeps(text, src, tgt) == <<text, src, tgt>>

ClearTimeoutNone(ts) == ts
ClearTimeout(ts) == {}

SetTimeoutSkipEmpty(text, src, tgt) ==
  IF text = "" THEN {} ELSE {[text |-> text, src |-> src, tgt |-> tgt]}
SetTimeout(text, src, tgt) == {[text |-> text, src |-> src, tgt |-> tgt]}

\* Render with new state (text, src, tgt, trans): the effect re-runs iff a
\* dependency changed; cleanup of the previous run, then the new setTimeout.
Render(text, src, tgt, trans) ==
  /\ mounted
  /\ <<text, src, tgt, trans>> #
       <<originalText, sourceLanguage, targetLanguage, translatedText>>
  /\ originalText' = text
  /\ sourceLanguage' = src
  /\ targetLanguage' = tgt
  /\ translatedText' = trans
  /\ IF EffectDeps(text, src, tgt) #
          EffectDeps(originalText, sourceLanguage, targetLanguage)
       THEN /\ timers' = ClearTimeout(timers) \cup SetTimeout(text, src, tgt)
            /\ burstSent' = 0
            /\ burstLen' = IF timers = {} THEN 1 ELSE Min(burstLen + 1, MaxBurst)
       ELSE UNCHANGED <<timers, burstSent, burstLen>>
  /\ UNCHANGED <<isTranslating, inflight, nSent, lastReq, toastCount,
                 latestReturn, allOk, mounted>>
  /\ PanelFrame

\* ---- Session State {sourceLanguage, targetLanguage, originalText,
\* translatedText, pending} and the bookkeeping of consecutive swaps ----
Session ==
  [sourceLanguage |-> sourceLanguage, targetLanguage |-> targetLanguage,
   originalText |-> originalText, translatedText |-> translatedText,
   pending |-> isTranslating]
NoSession ==
  [sourceLanguage |-> NONE, targetLanguage |-> NONE, originalText |-> NONE,
   translatedText |-> NONE, pending |-> FALSE]
NoteSwap ==
  /\ swapRun' = IF swapRun = 1 THEN 2 ELSE 1
  /\ swapBase' = IF swapRun = 1 THEN swapBase ELSE Session
NoteOther ==
  /\ swapRun' = 0
  /\ swapBase' = NoSession

\* ---- user input events ----
SetOriginalText(t) ==
  /\ Render(t, sourceLanguage, targetLanguage, translatedText)
  /\ NoteOther

ResetTranscript == SetOriginalText("")

SetSourceLanguage(l) ==
  /\ Render(originalText, l, targetLanguage, translatedText)
  /\ NoteOther

SetTargetLanguage(l) ==
  /\ Render(originalText, sourceLanguage, l, translatedText)
  /\ NoteOther

swapLanguagesLangsOnly ==
  /\ Render(originalText, targetLanguage, sourceLanguage, translatedText)
  /\ NoteSwap
swapLanguagesSequential ==
  /\ Render(translatedText, targetLanguage, sourceLanguage, translatedText)
  /\ NoteSwap
swapLanguages ==
  /\ Render(translatedText, targetLanguage, sourceLanguage, originalText)
  /\ NoteSwap

\* ---- translateText, up to the await of fetch ----
SkipsNever(text) == FALSE
Skips(text) == Falsy(text)

FireTimer(tm) ==
  /\ tm \in timers
  /\ timers' = timers \ {tm}
  /\ IF Skips(tm.text)
       THEN /\ translatedText' = ""
            /\ UNCHANGED <<isTranslating, inflight, nSent, lastReq,
                           latestReturn, burstSent>>
       ELSE /\ nSent < MaxRequests
            /\ isTranslating' = TRUE
            /\ nSent' = nSent + 1
            /\ inflight' = inflight \cup {nSent + 1}
            /\ lastReq' = [text |-> tm.text, sourceLanguage |-> tm.src,
                           targetLanguage |-> tm.tgt]
            /\ latestReturn' = NONE
            /\ burstSent' = burstSent + 1
            /\ UNCHANGED translatedText
  /\ UNCHANGED <<sourceLanguage, targetLanguage, originalText, toastCount,
                 allOk, burstLen, mounted>>
  /\ NoteOther
  /\ PanelFrame

\* ---- translateText, from the response to the end of finally ----
Throws(r) == r.rejected \/ ~r.parses \/ Truthy(r.error)

TranslatedAfterKeep(r, prev) == prev
TranslatedAfterClearOnError(r, prev) == IF Throws(r) THEN "" ELSE r.translation
TranslatedAfter(r, prev) == IF Throws(r) THEN prev ELSE r.translation

ToastsAfter(r, n) == IF Throws(r) THEN n + 1 ELSE n

\* finally { setIsTranslating(false) }
LoadingAfterOnlyOnSuccess(r, prev) == IF Throws(r) THEN prev ELSE FALSE
LoadingAfter(r, prev) == FALSE

\* (after the unmount the state setters have no cell to write; the toast is
\* still raised)
HandleResponse(id, r) ==
  /\ id \in inflight
  /\ inflight' = inflight \ {id}
  /\ translatedText' = IF mounted THEN TranslatedAfter(r, translatedText)
                       ELSE translatedText
  /\ toastCount' = ToastsAfter(r, toastCount)
  /\ isTranslating' = IF mounted THEN LoadingAfter(r, isTranslating)
                      ELSE isTranslating
  /\ latestReturn' = IF id = nSent /\ Is2xx(r) /\ ~Throws(r)
                       THEN r.translation ELSE latestReturn
  /\ allOk' = (allOk /\ Is2xx(r) /\ ~Throws(r))
  /\ UNCHANGED <<sourceLanguage, targetLanguage, originalText, timers, nSent,
                 lastReq, burstSent, burstLen, mounted>>
  /\ NoteOther
  /\ PanelFrame

\* ---- state after the first render: the effect has run once ----
PanelInit ==
  /\ sourceLanguage = "en-US"
  /\ targetLanguage = "es-ES"
  /\ originalText = ""
  /\ translatedText = ""
  /\ isTranslating = FALSE
  /\ timers = SetTimeout("", "en-US", "es-ES")
  /\ inflight = {}
  /\ nSent = 0
  /\ lastReq = NoRequest
  /\ toastCount = 0
  /\ latestReturn = NONE
  /\ allOk = TRUE
  /\ burstSent = 0
  /\ burstLen = 0
  /\ swapRun = 0
  /\ swapBase = NoSession
  /\ mounted = TRUE

Init == PanelInit /\ RouteIdle /\ ToastInit /\ ChatInit /\ ReportInit

Next ==
  \/ \E t \in Texts \ {""} : SetOriginalText(t)
  \/ ResetTranscript
  \/ \E l \in Langs : SetSourceLanguage(l)
  \/ \E l \in Langs : SetTargetLanguage(l)
  \/ swapLanguages
  \/ \E tm \in timers : FireTimer(tm)
  \/ \E id \in inflight : \E r \in Responses : HandleResponse(id, r)

Spec == Init /\ [][Next]_vars

TypeOK ==
  /\ sourceLanguage \in Langs
  /\ targetLanguage \in Langs
  /\ originalText \in Texts \cup {UNDEFINED}
  /\ translatedText \in Texts \cup {UNDEFINED}
  /\ isTranslating \in BOOLEAN
  /\ mounted \in BOOLEAN
  /\ inflight \subseteq 1..nSent
  /\ nSent \in 0..MaxRequests
  /\ toastCount \in 0..MaxRequests

\* ---- shorthands used by the properties ----
Triple == [text |-> originalText, src |-> sourceLanguage, tgt |-> targetLanguage]
Body(tm) == [text |-> tm.text, sourceLanguage |-> tm.src, targetLanguage |-> tm.tgt]
TranslationPayload(r) ==
  ~r.rejected /\ r.parses /\ Is2xx(r) /\ Falsy(r.error) /\ r.translation # UNDEFINED
FailurePayload(r) == r.rejected \/ (r.parses /\ Truthy(r.error))

\* C1: once a newer request has been dispatched, the completion of an earlier
\* request that is still in flight changes neither translatedText nor the
\* loading flag.
C1_StaleSuppression ==
  [][\A id \in inflight :
       (id \notin inflight' /\ id < nSent)
         => (translatedText' = translatedText /\ isTranslating' = isTranslating)]_vars

\* C2: once no timer is pending and no request is in flight, and all responses
\* were successful, translatedText is the translation returned for the most
\* recently dispatched (= most recently settled) triple.
C2_LatestWins ==
  (timers = {} /\ inflight = {} /\ allOk /\ Truthy(originalText)
     /\ latestReturn # NONE)
    => translatedText = latestReturn

\* C3: while a burst of changes is going on (a timer is pending) no request has
\* been dispatched for it; once its timer has fired with a non-empty text,
\* exactly one request has been dispatched for the burst and it carries the
\* triple current at the end of the burst.
C3_OneRequestPerBurst ==
  /\ timers # {} => burstSent = 0
  /\ (timers = {} /\ Truthy(originalText))
       => (burstSent = 1 /\ lastReq = Body(Triple))

C3_Witness ==
  timers = {} /\ burstLen >= 2 /\ burstSent = 1 /\ originalText = "Hello"

\* C4: every change of the triple replaces the pending timer by one new timer
\* for the new triple (the replaced one is gone and can never fire), so at
\* most one timer is pending in every reachable state.
C4_CancelBeforeSchedule ==
  /\ [](Cardinality(timers) <= 1)
  /\ [][Triple' # Triple => timers' = {Triple'}]_vars

C4_Witness ==
  Cardinality(timers) = 1 /\ burstLen >= 2 /\ nSent = 0

\* C5 (as stated): when originalText becomes the empty string, translatedText
\* is cleared in the same step and no timer is scheduled.
C5_ClearedImmediately ==
  [][(originalText # "" /\ originalText' = "")
       => (translatedText' = "" /\ timers' = {})]_vars

\* C5 (amended): when originalText becomes the empty string, the change itself
\* does not clear translatedText (a reset leaves it as it is, a swap puts the
\* former originalText there) and a timer is scheduled for the empty input as
\* for any other change; when that timer fires, translatedText is set to ""
\* and no request is sent and the loading flag is not touched.
C5_ClearedWhenTimerFires ==
  [][/\ (originalText # "" /\ originalText' = "")
          => /\ timers' = {Triple'}
             /\ translatedText' \in {translatedText, originalText}
             /\ nSent' = nSent
      /\ \A tm \in timers :
           (timers' = timers \ {tm} /\ tm.text = "")
             => /\ translatedText' = ""
                /\ nSent' = nSent
                /\ inflight' = inflight
                /\ isTranslating' = isTranslating]_vars

C5_Witness ==
  /\ timers = {} /\ originalText = "" /\ translatedText = ""
  /\ latestReturn = "Hola" /\ inflight = {} /\ nSent = 1

\* C6: no request is ever sent with an empty text; a timer that fires while
\* originalText is empty sends nothing and does not set the loading flag.
C6_NoEmptyRequest ==
  /\ [](lastReq # NoRequest => Truthy(lastReq.text))
  /\ [][\A tm \in timers :
          (timers' = timers \ {tm} /\ Falsy(originalText))
            => /\ nSent' = nSent
               /\ inflight' = inflight
               /\ lastReq' = lastReq
               /\ isTranslating' = isTranslating]_vars

C6_Witness ==
  /\ timers = {} /\ Falsy(originalText) /\ burstLen >= 2
  /\ nSent = 0 /\ ~isTranslating

\* C7: the triple a pending timer captured when it was scheduled is the
\* current triple for as long as the timer is pending, and a dispatched
\* request carries exactly the triple captured by the timer that fired.
C7_CapturedTriple ==
  /\ [](\A tm \in timers : tm = Triple)
  /\ [][nSent' # nSent
          => \E tm \in timers :
               /\ timers' = timers \ {tm}
               /\ lastReq' = Body(tm)
               /\ lastReq' = Body(Triple)]_vars

C7_Witness ==
  /\ nSent >= 1 /\ lastReq # NoRequest /\ timers = {}
  /\ lastReq = Body(Triple)
  /\ sourceLanguage = "es-ES" /\ targetLanguage = "en-US"

\* C8: a response that carries {translation: t} with a success status replaces
\* translatedText by t and raises no toast.
C8_SuccessReplaces ==
  [][\A id \in inflight : \A r \in Responses :
       (HandleResponse(id, r) /\ TranslationPayload(r))
         => (translatedText' = r.translation /\ toastCount' = toastCount)]_vars

C8_Witness ==
  /\ originalText = "Hello" /\ sourceLanguage = "en-US"
  /\ targetLanguage = "es-ES" /\ translatedText = "Hola"
  /\ latestReturn = "Hola" /\ toastCount = 0 /\ inflight = {} /\ nSent = 1

\* C9: a failed request (fetch rejects, or the payload has an error field)
\* raises exactly one toast, leaves translatedText as it was, and neither
\* dispatches a request nor schedules a timer; requests come only from a timer
\* that fires and timers only from a change of the triple.
C9_FailureRetains ==
  /\ [][\A id \in inflight : \A r \in Responses :
          (HandleResponse(id, r) /\ FailurePayload(r))
            => /\ toastCount' = toastCount + 1
               /\ translatedText' = translatedText
               /\ nSent' = nSent
               /\ timers' = timers
               /\ inflight' = inflight \ {id}]_vars
  /\ [][nSent' # nSent => \E tm \in timers : timers' = timers \ {tm}]_vars
  /\ [][~(timers' \subseteq timers) => Triple' # Triple]_vars

C9_Witness ==
  /\ toastCount = 1 /\ translatedText = "Hola" /\ nSent = 2
  /\ inflight = {} /\ timers = {} /\ latestReturn = NONE

\* C10: every response with a non-2xx status is handled as a failure, whatever
\* its body: translatedText is not replaced and a failure toast is raised.
C10_Non2xxIsFailure ==
  [][\A id \in inflight : \A r \in Responses :
       (HandleResponse(id, r) /\ ~r.rejected /\ ~Is2xx(r))
         => (translatedText' = translatedText /\ toastCount' = toastCount + 1)]_vars

\* ---- swap: the state swapLanguages produces from the current one ----
Swapped ==
  [sourceLanguage |-> targetLanguage, targetLanguage |-> sourceLanguage,
   originalText |-> translatedText, translatedText |-> originalText,
   pending |-> isTranslating]
SwappedTriple ==
  [text |-> translatedText, src |-> targetLanguage, tgt |-> sourceLanguage]

\* C11: isTranslating is true if and only if a dispatched request has not had
\* its response handled yet.
C11_LoadingIffInFlight ==
  isTranslating <=> (inflight # {})

\* C12: a swap maps (sourceLanguage, targetLanguage, originalText,
\* translatedText) to (targetLanguage, sourceLanguage, translatedText,
\* originalText) in one step and sends no request; no step exchanges the
\* languages without exchanging the texts, or the texts without the languages.
C12_SwapAtomic ==
  /\ [][swapLanguages
          => /\ Session' = Swapped
             /\ nSent' = nSent
             /\ inflight' = inflight
             /\ lastReq' = lastReq]_vars
  /\ [][(sourceLanguage # targetLanguage /\ sourceLanguage' = targetLanguage
           /\ targetLanguage' = sourceLanguage)
          => (originalText' = translatedText /\ translatedText' = originalText)]_vars
  /\ [][(originalText # translatedText /\ originalText' = translatedText
           /\ translatedText' = originalText)
          => (sourceLanguage' = targetLanguage /\ targetLanguage' = sourceLanguage)]_vars

C12_Witness ==
  /\ swapRun = 1
  /\ swapBase = [sourceLanguage |-> "en-US", targetLanguage |-> "es-ES",
                 originalText |-> "Hello", translatedText |-> "Hola",
                 pending |-> FALSE]
  /\ Session = [sourceLanguage |-> "es-ES", targetLanguage |-> "en-US",
                originalText |-> "Hola", translatedText |-> "Hello",
                pending |-> FALSE]

\* C13: after two swaps with no other event between them the Session State is
\* the one before the first swap.
C13_SwapTwiceIsIdentity ==
  swapRun = 2 => Session = swapBase

C13_Witness ==
  /\ swapRun = 2 /\ sourceLanguage # targetLanguage
  /\ originalText # translatedText /\ isTranslating

\* C14 (as stated): in every state in which originalText and translatedText
\* are both non-empty, a swap makes the effect run again (and so schedules a
\* new debounce call).
C14_SwapAlwaysSchedules ==
  (Truthy(originalText) /\ Truthy(translatedText))
    => EffectDeps(translatedText, targetLanguage, sourceLanguage)
         # EffectDeps(originalText, sourceLanguage, targetLanguage)

\* C14 (amended): a swap that changes the triple, with both texts non-empty,
\* leaves exactly one pending timer, the one for the swapped triple, and
\* dispatches nothing itself; a timer that fires with a non-empty text sends
\* the triple that is then current; a swap that makes originalText empty
\* leads to no request when its timer fires; a swap that changes nothing (same
\* language on both sides and the same text on both sides) is no step at all.
C14_SwapSchedulesSwappedTriple ==
  /\ [][(swapLanguages /\ Truthy(originalText) /\ Truthy(translatedText))
          => /\ timers' = {SwappedTriple}
             /\ Triple' = SwappedTriple
             /\ burstSent' = 0
             /\ nSent' = nSent]_vars
  /\ [][\A tm \in timers :
          (timers' = timers \ {tm})
            => IF Truthy(tm.text)
                 THEN nSent' = nSent + 1 /\ lastReq' = Body(Triple)
                 ELSE nSent' = nSent]_vars
  /\ [][(swapLanguages /\ Falsy(translatedText))
          => (timers' = {SwappedTriple} /\ Falsy(originalText'))]_vars
  /\ [][swapLanguages => Session # Swapped]_vars

C14_Witness ==
  /\ swapRun = 1 /\ timers = {Triple} /\ burstSent = 0
  /\ Truthy(originalText) /\ Truthy(translatedText)
  /\ originalText = "Hola" /\ sourceLanguage = "es-ES"
  /\ targetLanguage = "en-US" /\ nSent = 1 /\ inflight = {}

\* C15: handling a failed request leaves sourceLanguage, targetLanguage,
\* originalText and the pending timer alone and sets isTranslating to false;
\* after a failure a change of the triple still schedules a timer, and a
\* timer with a non-empty text can still fire and dispatch a request.
C15_FailureIsLocal ==
  /\ [][\A id \in inflight : \A r \in Responses :
          (HandleResponse(id, r) /\ Throws(r))
            => /\ sourceLanguage' = sourceLanguage
               /\ targetLanguage' = targetLanguage
               /\ originalText' = originalText
               /\ timers' = timers
               /\ isTranslating' = FALSE]_vars
  /\ [][(toastCount >= 1 /\ Triple' # Triple) => timers' = {Triple'}]_vars
  /\ [](toastCount >= 1
          => \A tm \in timers :
               (Truthy(tm.text) /\ nSent < MaxRequests) => ENABLED FireTimer(tm))
  /\ [][\A tm \in timers :
          (toastCount >= 1 /\ timers' = timers \ {tm} /\ Truthy(tm.text))
            => (nSent' = nSent + 1 /\ isTranslating')]_vars

C15_Witness ==
  /\ toastCount = 1 /\ nSent = 2 /\ inflight = {2} /\ isTranslating
  /\ ~allOk /\ lastReq = Body(Triple) /\ timers = {}

(***************************************************************************)
(* The three route handlers: app/api/translate, app/api/chat and           *)
(* app/api/analyze-report.  Each is a function of the request and of what  *)
(* the model provider does; the server keeps nothing between requests.     *)
(***************************************************************************)
StatusBadRequest == 400
MissingParametersError == "Missing required parameters"
NoFileError == "No file provided"
ChatRouteError == "Failed to get response"
AnalyzeRouteError == "Failed to analyze medical report"

RouteKinds == {"translate", "chat", "analyze"}
FieldValues == {UNDEFINED, "", "x"}
FileTypes == {"text/plain", "image/png", "application/pdf"}
ProviderTexts == {"", "Hola"}

\* the body of a request: JSON for translate and chat, multipart form data for
\* analyze-report; parses = FALSE is a body that request.json() / formData()
\* rejects.  file = NONE is formData.get("file") returning null.
RouteRequests(kind) ==
  {[NoRouteRequest EXCEPT !.parses = FALSE]}
  \cup
  CASE kind = "translate" ->
         {[NoRouteRequest EXCEPT !.parses = TRUE, !.text = t,
                                 !.sourceLanguage = sl, !.targetLanguage = tl] :
            t \in FieldValues, sl \in FieldValues, tl \in FieldValues}
    [] kind = "chat" ->
         {[NoRouteRequest EXCEPT !.parses = TRUE, !.message = m] :
            m \in FieldValues}
    [] OTHER ->
         {[NoRouteRequest EXCEPT !.parses = TRUE, !.file = f] :
            f \in FileTypes \cup {NONE}}

\* model.generateContent(..) / response.text(): returns a text or throws
Providers ==
  {[throws |-> TRUE, text |-> NONE]}
  \cup {[throws |-> FALSE, text |-> t] : t \in ProviderTexts}

\* NextResponse.json(body, {status})
Json(body, status, calls) ==
  [status |-> status, body |-> body, modelCalls |-> calls, escaped |-> FALSE,
   handled |-> TRUE]

\* catch (error) { console.error(..); return json({error: msg}, {status: 500}) }
CaughtRethrows(msg, calls) ==
  [status |-> 0, body |-> EmptyBody, modelCalls |-> calls, escaped |-> TRUE,
   handled |-> TRUE]
Caught(msg, calls) ==
  Json([EmptyBody EXCEPT !.error = msg], StatusServerError, calls)

\* if (!text || !sourceLanguage || !targetLanguage)
MissingParamsTextOnly(req) == Falsy(req.text)
MissingParams(req) ==
  Falsy(req.text) \/ Falsy(req.sourceLanguage) \/ Falsy(req.targetLanguage)

\* if (!file)
NoFile(req) == req.file = NONE

TranslatePOST(req, prov) ==
  IF ~req.parses THEN Caught(RouteError, 0)
  ELSE IF MissingParams(req)
    THEN Json([EmptyBody EXCEPT !.error = MissingParametersError],
              StatusBadRequest, 0)
  ELSE IF prov.throws THEN Caught(RouteError, 1)
  ELSE Json([EmptyBody EXCEPT !.translation = prov.text], StatusOK, 1)

ChatPOST(req, prov) ==
  IF ~req.parses THEN Caught(ChatRouteError, 0)
  ELSE IF prov.throws THEN Caught(ChatRouteError, 1)
  ELSE Json([EmptyBody EXCEPT !.response = prov.text], StatusOK, 1)

AnalyzePOST(req, prov) ==
  IF ~req.parses THEN Caught(AnalyzeRouteError, 0)
  ELSE IF NoFile(req)
    THEN Json([EmptyBody EXCEPT !.error = NoFileError], StatusBadRequest, 0)
  ELSE IF prov.throws THEN Caught(AnalyzeRouteError, 1)
  ELSE Json([EmptyBody EXCEPT !.analysis = prov.text], StatusOK, 1)

POST(kind, req, prov) ==
  CASE kind = "translate" -> TranslatePOST(req, prov)
    [] kind = "chat" -> ChatPOST(req, prov)
    [] OTHER -> AnalyzePOST(req, prov)

\* a request arrives
RouteArrive ==
  /\ rtKind' \in RouteKinds
  /\ rtReq' \in RouteRequests(rtKind')
  /\ rtProv' \in Providers
  /\ rtResp' = NoRouteResponse
  /\ rtKind = NONE \/ rtResp.handled
  /\ RouteFrame

\* the handler runs to its return
RouteHandle ==
  /\ rtKind # NONE
  /\ ~rtResp.handled
  /\ rtResp' = POST(rtKind, rtReq, rtProv)
  /\ UNCHANGED <<rtKind, rtReq, rtProv>>
  /\ RouteFrame

InitRoutes == PanelInit /\ RouteIdle /\ ToastInit /\ ChatInit /\ ReportInit
NextRoutes == RouteArrive \/ RouteHandle
SpecRoutes == InitRoutes /\ [][NextRoutes]_vars

\* the fields a JSON body has (undefined members are not serialised)
Fields(body) ==
  {f \in {"translation", "response", "analysis", "error"} : body[f] # UNDEFINED}
ResultField(kind) ==
  CASE kind = "translate" -> "translation"
    [] kind = "chat" -> "response"
    [] OTHER -> "analysis"

TOAST_LIMIT == 1
ToastTitles == {"Translation Failed", "Chat Refreshed"}

\* toastId?: string left out (undefined)
NoToastId == 0

\* Partial<ToasterToast> of UPDATE_TOAST: the keys that are present, and
\* their values
ToastProps ==
  [keys : SUBSET {"title", "open"}, title : ToastTitles, open : BOOLEAN]

\* array.slice(0, n)
Slice(seq, n) == SubSeq(seq, 1, Min(n, Len(seq)))

\* { ...t, ...action.toast }
Merge(t, props) ==
  [id |-> t.id,
   title |-> IF "title" \in props.keys THEN props.title ELSE t.title,
   open |-> IF "open" \in props.keys THEN props.open ELSE t.open]

RECURSIVE Filter(_, _)
\* state.toasts.filter((t) => t.id !== toastId)
Filter(seq, toastId) ==
  IF seq = <<>> THEN <<>>
  ELSE IF Head(seq).id # toastId
    THEN <<Head(seq)>> \o Filter(Tail(seq), toastId)
    ELSE Filter(Tail(seq), toastId)

ReduceAddAtEnd(toasts, t) == Slice(toasts \o <<t>>, TOAST_LIMIT)
\* case "ADD_TOAST"
ReduceAdd(toasts, t) == Slice(<<t>> \o toasts, TOAST_LIMIT)

\* case "UPDATE_TOAST"
ReduceUpdate(toasts, id, props) ==
  [i \in DOMAIN toasts |->
     IF toasts[i].id = id THEN Merge(toasts[i], props) ELSE toasts[i]]

\* case "DISMISS_TOAST" (the returned state)
ReduceDismiss(toasts, toastId) ==
  [i \in DOMAIN toasts |->
     IF toasts[i].id = toastId \/ toastId = NoToastId
       THEN [toasts[i] EXCEPT !.open = FALSE] ELSE toasts[i]]

\* case "REMOVE_TOAST"
ReduceRemove(toasts, toastId) ==
  IF toastId = NoToastId THEN <<>> ELSE Filter(toasts, toastId)

\* the ids addToRemoveQueue is called for by DISMISS_TOAST
DismissTargets(toasts, toastId) ==
  IF toastId # NoToastId THEN {toastId}
  ELSE {toasts[i].id : i \in DOMAIN toasts}

\* addToRemoveQueue: has() check, setTimeout, set()
QueuesAgain(timeouts, id) == TRUE
Queues(timeouts, id) == id \notin timeouts

\* toast(props): genId and ADD_TOAST
ToastCall(title) ==
  /\ count < MaxToastIds
  /\ count' = count + 1
  /\ memoryState' =
       [toasts |-> ReduceAdd(memoryState.toasts,
                             [id |-> count + 1, title |-> title, open |-> TRUE])]
  /\ UNCHANGED <<toastTimeouts, removalTimers>>
  /\ ToastFrame

\* update(props) of a toast() result
UpdateToast(id, props) ==
  /\ id \in 1..count
  /\ memoryState' = [toasts |-> ReduceUpdate(memoryState.toasts, id, props)]
  /\ UNCHANGED <<toastTimeouts, removalTimers, count>>
  /\ ToastFrame

\* dismiss() of a toast() result, onOpenChange(false), useToast().dismiss(id?)
DismissToast(toastId) ==
  /\ toastId \in (1..count) \cup {NoToastId}
  /\ LET targets == DismissTargets(memoryState.toasts, toastId)
         queued == {id \in targets : Queues(toastTimeouts, id)}
     IN /\ toastTimeouts' = toastTimeouts \cup queued
        /\ removalTimers' =
             [id \in ToastIds |->
                IF id \in queued THEN removalTimers[id] + 1 ELSE removalTimers[id]]
  /\ memoryState' = [toasts |-> ReduceDismiss(memoryState.toasts, toastId)]
  /\ UNCHANGED count
  /\ ToastFrame

\* the callback of addToRemoveQueue runs: delete the entry, REMOVE_TOAST
RemoveTimerFires(id) ==
  /\ id \in ToastIds
  /\ removalTimers[id] > 0
  /\ removalTimers' = [removalTimers EXCEPT ![id] = @ - 1]
  /\ toastTimeouts' = toastTimeouts \ {id}
  /\ memoryState' = [toasts |-> ReduceRemove(memoryState.toasts, id)]
  /\ UNCHANGED count
  /\ ToastFrame

InitToast == PanelInit /\ RouteIdle /\ ToastInit /\ ChatInit /\ ReportInit
NextToast ==
  \/ \E title \in ToastTitles : ToastCall(title)
  \/ \E id \in ToastIds : \E props \in ToastProps : UpdateToast(id, props)
  \/ \E toastId \in ToastIds \cup {NoToastId} : DismissToast(toastId)
  \/ \E id \in ToastIds : RemoveTimerFires(id)
\* a setTimeout callback that is pending is eventually run
SpecToast ==
  InitToast /\ [][NextToast]_vars
    /\ \A id \in ToastIds : WF_vars(RemoveTimerFires(id))

ToastShown(id) == \E i \in DOMAIN memoryState.toasts : memoryState.toasts[i].id = id

\* C18: the toast state never holds more than TOAST_LIMIT toasts, and after a
\* toast is added the state holds exactly that toast, open.
C18_ToastLimit ==
  /\ [](Len(memoryState.toasts) <= TOAST_LIMIT)
  /\ [][count' # count
          => /\ Len(memoryState'.toasts) = 1
             /\ memoryState'.toasts[1].id = count'
             /\ memoryState'.toasts[1].open]_vars

C18_Witness ==
  /\ count = 2 /\ Len(memoryState.toasts) = 1
  /\ memoryState.toasts[1].id = 2 /\ 1 \in toastTimeouts

\* C19: dismissing a toast id closes that toast and leaves exactly one removal
\* timer for the id, however often it is dismissed; when the timer runs, the
\* toast is no longer in the state and the id has no timer entry; a toast
\* that has been dismissed is eventually no longer in the state.
C19_DismissThenRemove ==
  /\ [][\A id \in ToastIds :
          DismissToast(id)
            => /\ id \in toastTimeouts'
               /\ removalTimers'[id] = 1
               /\ \A i \in DOMAIN memoryState'.toasts :
                    memoryState'.toasts[i].id = id => ~memoryState'.toasts[i].open]_vars
  /\ [](\A id \in ToastIds :
          /\ removalTimers[id] <= 1
          /\ (removalTimers[id] = 1) <=> (id \in toastTimeouts))
  /\ [][\A id \in ToastIds :
          RemoveTimerFires(id)
            => (~ToastShown(id)' /\ id \notin toastTimeouts')]_vars
  /\ \A id \in ToastIds :
       (ToastShown(id) /\ id \in toastTimeouts) ~> ~ToastShown(id)

C19_Witness ==
  /\ count = 1 /\ memoryState.toasts = <<>>
  /\ toastTimeouts = {} /\ removalTimers[1] = 0

(***************************************************************************)
(* ChatWindow: message history, input field, send and refresh.  The toasts *)
(* it raises are counted per title.                                        *)
(***************************************************************************)
ChatInputs == {<<>>, <<" ">>, <<"h", "i">>, <<" ", "h", "i", " ">>}
ChatReplies == {<<>>, <<"o", "k">>}

RECURSIVE TrimStart(_)
TrimStart(str) ==
  IF str # <<>> /\ Head(str) = " " THEN TrimStart(Tail(str)) ELSE str
RECURSIVE TrimEnd(_)
TrimEnd(str) ==
  IF str # <<>> /\ str[Len(str)] = " "
    THEN TrimEnd(SubSeq(str, 1, Len(str) - 1)) ELSE str
\* String.prototype.trim
Trim(str) == TrimEnd(TrimStart(str))

\* what fetch("/api/chat") + response.json() can produce: fetch rejects; the
\* route answers 200 {response} or 500 {error}; 502 with a body that is not
\* JSON; 200 with an {error} body
ChatResponses ==
  {[rejected |-> TRUE, ok |-> FALSE, parses |-> FALSE, error |-> UNDEFINED,
    response |-> <<>>]}
  \cup {[rejected |-> FALSE, ok |-> TRUE, parses |-> TRUE, error |-> UNDEFINED,
         response |-> c] : c \in ChatReplies}
  \cup {[rejected |-> FALSE, ok |-> FALSE, parses |-> TRUE,
         error |-> ChatRouteError, response |-> <<>>]}
  \cup {[rejected |-> FALSE, ok |-> FALSE, parses |-> FALSE, error |-> UNDEFINED,
         response |-> <<>>]}
  \cup {[rejected |-> FALSE, ok |-> TRUE, parses |-> TRUE,
         error |-> ChatRouteError, response |-> <<>>]}

\* the clock advances
Tick ==
  /\ now < MaxClock
  /\ now' = now + 1
  /\ UNCHANGED <<messages, inputMessage, isLoading, isRefreshing, chatInflight,
                 chatSent, chatErrorToasts, chatRefreshToasts, refreshTimers>>
  /\ ChatFrame

\* onChange of the Input (disabled while isLoading)
SetInputMessage(v) ==
  /\ ~isLoading
  /\ v # inputMessage
  /\ inputMessage' = v
  /\ UNCHANGED <<messages, isLoading, isRefreshing, chatInflight, chatSent,
                 chatErrorToasts, chatRefreshToasts, refreshTimers, now>>
  /\ ChatFrame

SendGuardReturnsNoTrim == inputMessage = <<>> \/ isLoading
\* if (!inputMessage.trim() || isLoading) return;
SendGuardReturns == Trim(inputMessage) = <<>> \/ isLoading

\* handleSendMessage, up to the await of fetch; the early return changes
\* nothing
handleSendMessage ==
  /\ chatSent < MaxChatSends
  /\ IF SendGuardReturns
       THEN UNCHANGED <<messages, inputMessage, isLoading, chatSent,
                        chatInflight>>
       ELSE /\ messages' = Append(messages,
                                  [id |-> DateNowId(now),
                                   content |-> inputMessage,
                                   isUser |-> TRUE, timestamp |-> now])
            /\ inputMessage' = <<>>
            /\ isLoading' = TRUE
            /\ chatSent' = chatSent + 1
            /\ chatInflight' = chatInflight
                                 \cup {[n |-> chatSent + 1,
                                        message |-> inputMessage]}
  /\ UNCHANGED <<isRefreshing, chatErrorToasts, chatRefreshToasts,
                 refreshTimers, now>>
  /\ ChatFrame

ChatThrowsOnlyOnReject(r) == r.rejected
ChatThrows(r) == r.rejected \/ ~r.ok \/ ~r.parses \/ Truthy(r.error)

\* handleSendMessage, from the response to the end of finally
ChatRespond(req, r) ==
  /\ req \in chatInflight
  /\ chatInflight' = chatInflight \ {req}
  /\ IF ChatThrows(r)
       THEN /\ chatErrorToasts' = chatErrorToasts + 1
            /\ UNCHANGED messages
       ELSE /\ messages' = Append(messages,
                                  [id |-> DateNowId(now), content |-> r.response,
                                   isUser |-> FALSE, timestamp |-> now])
            /\ UNCHANGED chatErrorToasts
  /\ isLoading' = FALSE
  /\ UNCHANGED <<inputMessage, isRefreshing, chatSent, chatRefreshToasts,
                 refreshTimers, now>>
  /\ ChatFrame

RefreshedMessagesKeepLast(t) ==
  IF Len(messages) > 1 THEN <<Welcome(t), messages[Len(messages)]>>
  ELSE <<Welcome(t)>>
\* setMessages([{ id: "welcome", .. }])
RefreshedMessages(t) == <<Welcome(t)>>

\* handleRefresh (its button is disabled while isRefreshing or when the
\* history has one message)
handleRefresh ==
  /\ ~(isRefreshing \/ Len(messages) = 1)
  /\ isRefreshing' = TRUE
  /\ messages' = RefreshedMessages(now)
  /\ chatRefreshToasts' = chatRefreshToasts + 1
  /\ refreshTimers' = refreshTimers + 1
  /\ UNCHANGED <<inputMessage, isLoading, chatInflight, chatSent,
                 chatErrorToasts, now>>
  /\ ChatFrame

\* setTimeout(() => setIsRefreshing(false), 500)
RefreshTimerFires ==
  /\ refreshTimers > 0
  /\ refreshTimers' = refreshTimers - 1
  /\ isRefreshing' = FALSE
  /\ UNCHANGED <<messages, inputMessage, isLoading, chatInflight, chatSent,
                 chatErrorToasts, chatRefreshToasts, now>>
  /\ ChatFrame

InitChat == PanelInit /\ RouteIdle /\ ToastInit /\ ChatInit /\ ReportInit
NextChat ==
  \/ Tick
  \/ \E v \in ChatInputs : SetInputMessage(v)
  \/ handleSendMessage
  \/ \E req \in chatInflight : \E r \in ChatResponses : ChatRespond(req, r)
  \/ handleRefresh
  \/ RefreshTimerFires
SpecChat == InitChat /\ [][NextChat]_vars

IsWelcome(m) ==
  m.id = WelcomeId /\ m.content = WELCOME_MESSAGE /\ ~m.isUser

\* C20: the history is never empty and its first message is the welcome
\* message; handleRefresh leaves exactly one message, the welcome message,
\* whatever the history was (its timestamp is the time of the refresh).
C20_WelcomeFirst ==
  /\ [](Len(messages) >= 1 /\ IsWelcome(messages[1]))
  /\ [][chatRefreshToasts' # chatRefreshToasts
          => (messages' = <<Welcome(now)>> /\ IsWelcome(messages'[1]))]_vars

C20_Witness ==
  /\ chatRefreshToasts = 1 /\ isRefreshing /\ Len(messages) = 1
  /\ chatSent = 2 /\ chatInflight = {}

AssistantMessage(m, text) ==
  ~m.isUser /\ m.content = text /\ ~m.id.welcome

\* C21: a failed chat request (fetch rejects, non-ok status, error field, or
\* a body that does not parse) appends nothing and leaves the history as it
\* is, raises exactly one error toast and ends with isLoading false, after
\* which a typed message is sent; a successful one appends exactly one
\* assistant message carrying the response text and raises no toast.
C21_FailureKeepsHistory ==
  /\ [][\A req \in chatInflight : \A r \in ChatResponses :
          ChatRespond(req, r) =>
            /\ ~isLoading'
            /\ IF r.rejected \/ ~r.ok \/ ~r.parses \/ r.error # UNDEFINED
                 THEN /\ messages' = messages
                      /\ chatErrorToasts' = chatErrorToasts + 1
                 ELSE /\ Len(messages') = Len(messages) + 1
                      /\ SubSeq(messages', 1, Len(messages)) = messages
                      /\ AssistantMessage(messages'[Len(messages')], r.response)
                      /\ chatErrorToasts' = chatErrorToasts]_vars
  /\ []((chatInflight = {} /\ Trim(inputMessage) # <<>>) => ~SendGuardReturns)

C21_Witness ==
  /\ chatErrorToasts = 1 /\ chatSent = 2 /\ chatInflight = {}
  /\ Len(messages) = 4 /\ messages[2].isUser /\ messages[3].isUser
  /\ AssistantMessage(messages[4], <<"o", "k">>)

\* C22: handleSendMessage appends no message and sends no request when the
\* trimmed input is empty or isLoading is true; at most one chat request is
\* in flight, and isLoading is true exactly while one is.
C22_SendGuard ==
  /\ [][(chatSent' # chatSent \/ chatInflight' \ chatInflight # {}
          \/ (Len(messages') > Len(messages)
              /\ messages'[Len(messages')].isUser))
        => (Trim(inputMessage) # <<>> /\ ~isLoading)]_vars
  /\ [](Cardinality(chatInflight) <= 1)
  /\ [](isLoading <=> chatInflight # {})

C22_Witness ==
  /\ isLoading /\ Cardinality(chatInflight) = 1 /\ chatSent = 2
  /\ Trim(inputMessage) = <<>>

\* C23: every assistant message other than the welcome message directly
\* follows a user message, also when handleRefresh ran while the request
\* was in flight.
C23_AnswerFollowsQuestion ==
  \A i \in 1..Len(messages) :
    (~messages[i].isUser /\ ~messages[i].id.welcome)
      => (i > 1 /\ messages[i - 1].isUser)

(***************************************************************************)
(* MedicalReportPanel: report text, uploaded file, analysis request.       *)
(***************************************************************************)
ReportTexts == {<<>>, <<" ">>, <<"b", "p">>}
Files == {"scan.png", "report.pdf"}
AnalysisTexts == {"", "Findings"}
AnalyzeFailedMessage == "Failed to analyze the report. Please try again."

\* URL.createObjectURL(file)
ObjectURL(file) == IF file = "scan.png" THEN "blob:1" ELSE "blob:2"

\* what fetch("/api/analyze-report") + response.json() can produce: fetch
\* rejects; the route answers 200 {analysis}, or 400 / 500 {error}; 502 with
\* a body that is not JSON
AnalyzeResponses ==
  {[rejected |-> TRUE, ok |-> FALSE, parses |-> FALSE, analysis |-> UNDEFINED,
    error |-> UNDEFINED]}
  \cup {[rejected |-> FALSE, ok |-> TRUE, parses |-> TRUE, analysis |-> a,
         error |-> UNDEFINED] : a \in AnalysisTexts}
  \cup {[rejected |-> FALSE, ok |-> FALSE, parses |-> TRUE,
         analysis |-> UNDEFINED, error |-> e]
          : e \in {NoFileError, AnalyzeRouteError}}
  \cup {[rejected |-> FALSE, ok |-> FALSE, parses |-> FALSE,
         analysis |-> UNDEFINED, error |-> UNDEFINED]}

\* onChange of the Textarea, and the button that empties it
SetMedicalReport(v) ==
  /\ v # medicalReport
  /\ medicalReport' = v
  /\ reportCleared' = FALSE
  /\ reportLast' = "type"
  /\ UNCHANGED <<analysis, isAnalyzing, selectedImage, selectedFile, error,
                 analyzeInflight, analyzeSent>>
  /\ ReportFrame

\* handleImageUpload with a file chosen
handleImageUpload(file) ==
  /\ selectedFile' = file
  /\ selectedImage' = ObjectURL(file)
  /\ error' = ""
  /\ reportCleared' = FALSE
  /\ reportLast' = "upload"
  /\ UNCHANGED <<medicalReport, analysis, isAnalyzing, analyzeInflight,
                 analyzeSent>>
  /\ ReportFrame

\* if (!medicalReport.trim() && !selectedFile) return;
AnalyzeGuardReturns == Trim(medicalReport) = <<>> /\ selectedFile = NULL

FormPartTextFirst(file, report) ==
  IF Trim(report) # <<>>
    THEN [kind |-> "text", file |-> "report.txt", text |-> report]
    ELSE [kind |-> "file", file |-> file, text |-> <<>>]
\* the "file" part of the FormData
FormPart(file, report) ==
  IF file # NULL
    THEN [kind |-> "file", file |-> file, text |-> <<>>]
    ELSE IF Trim(report) # <<>>
      THEN [kind |-> "text", file |-> "report.txt", text |-> report]
      ELSE [kind |-> "none", file |-> NULL, text |-> <<>>]

\* handleAnalyze, up to the await of fetch (its button is disabled while
\* isAnalyzing); the early return changes nothing
handleAnalyze ==
  /\ ~isAnalyzing
  /\ analyzeSent < MaxAnalyses
  /\ IF AnalyzeGuardReturns
       THEN UNCHANGED <<isAnalyzing, error, analyzeInflight, analyzeSent,
                        reportCleared, reportLast>>
       ELSE /\ isAnalyzing' = TRUE
            /\ error' = ""
            /\ analyzeSent' = analyzeSent + 1
            /\ analyzeInflight' =
                 analyzeInflight
                   \cup {[n |-> analyzeSent + 1,
                          part |-> FormPart(selectedFile, medicalReport)]}
            /\ reportCleared' = FALSE
            /\ reportLast' = "analyze"
  /\ UNCHANGED <<medicalReport, analysis, selectedImage, selectedFile>>
  /\ ReportFrame

AnalyzeThrows(r) == r.rejected \/ ~r.ok \/ ~r.parses

AnalysisAfterClearOnError(r, prev) ==
  IF AnalyzeThrows(r) THEN "" ELSE r.analysis
\* setAnalysis(data.analysis), skipped when something threw before it
AnalysisAfter(r, prev) == IF AnalyzeThrows(r) THEN prev ELSE r.analysis

\* handleAnalyze, from the response to the end of finally
AnalyzeRespond(req, r) ==
  /\ req \in analyzeInflight
  /\ analyzeInflight' = analyzeInflight \ {req}
  /\ analysis' = AnalysisAfter(r, analysis)
  /\ error' = IF AnalyzeThrows(r) THEN AnalyzeFailedMessage ELSE error
  /\ isAnalyzing' = FALSE
  /\ reportLast' = "respond"
  /\ UNCHANGED <<medicalReport, selectedImage, selectedFile, analyzeSent,
                 reportCleared>>
  /\ ReportFrame

handleClear ==
  /\ medicalReport' = <<>>
  /\ analysis' = ""
  /\ selectedImage' = NULL
  /\ selectedFile' = NULL
  /\ error' = ""
  /\ reportCleared' = TRUE
  /\ reportLast' = "clear"
  /\ UNCHANGED <<isAnalyzing, analyzeInflight, analyzeSent>>
  /\ ReportFrame

handleRemoveImageAndText ==
  /\ selectedImage # NULL
  /\ selectedImage' = NULL
  /\ selectedFile' = NULL
  /\ medicalReport' = <<>>
  /\ reportCleared' = FALSE
  /\ reportLast' = "remove"
  /\ UNCHANGED <<analysis, isAnalyzing, error, analyzeInflight, analyzeSent>>
  /\ ReportFrame
\* handleRemoveImage (its button is shown over the preview)
handleRemoveImage ==
  /\ selectedImage # NULL
  /\ selectedImage' = NULL
  /\ selectedFile' = NULL
  /\ reportCleared' = FALSE
  /\ reportLast' = "remove"
  /\ UNCHANGED <<medicalReport, analysis, isAnalyzing, error, analyzeInflight,
                 analyzeSent>>
  /\ ReportFrame

\* the "Clear results" button, shown when analysis is not empty
ClearResults ==
  /\ Truthy(analysis)
  /\ analysis' = ""
  /\ reportCleared' = FALSE
  /\ reportLast' = "clearResults"
  /\ UNCHANGED <<medicalReport, isAnalyzing, selectedImage, selectedFile, error,
                 analyzeInflight, analyzeSent>>
  /\ ReportFrame

InitReport == PanelInit /\ RouteIdle /\ ToastInit /\ ChatInit /\ ReportInit
NextReport ==
  \/ \E v \in ReportTexts : SetMedicalReport(v)
  \/ \E file \in Files : handleImageUpload(file)
  \/ handleAnalyze
  \/ \E req \in analyzeInflight : \E r \in AnalyzeResponses :
       AnalyzeRespond(req, r)
  \/ handleClear
  \/ handleRemoveImage
  \/ ClearResults
SpecReport == InitReport /\ [][NextReport]_vars

\* C24: after handleClear, and until the next user action, every state
\* variable of the panel has its initial value, also when a request was in
\* flight at the time of the clear.
C24_ClearResets ==
  reportCleared =>
    /\ medicalReport = <<>> /\ analysis = "" /\ selectedImage = NULL
    /\ selectedFile = NULL /\ error = "" /\ isAnalyzing = FALSE

\* C25: handleAnalyze sends nothing when the trimmed text is empty and no
\* file is selected; otherwise it sends one request, whose file part is the
\* selected file when there is one and a text/plain blob of the report text
\* when there is none.
C25_AnalyzePayload ==
  [][handleAnalyze =>
       IF Trim(medicalReport) = <<>> /\ selectedFile = NULL
         THEN analyzeSent' = analyzeSent /\ analyzeInflight' = analyzeInflight
         ELSE /\ analyzeSent' = analyzeSent + 1
              /\ \E req \in analyzeInflight' :
                   /\ analyzeInflight' = analyzeInflight \cup {req}
                   /\ req \notin analyzeInflight
                   /\ IF selectedFile # NULL
                        THEN /\ req.part.kind = "file"
                             /\ req.part.file = selectedFile
                             /\ req.part.text = <<>>
                        ELSE /\ req.part.kind = "text"
                             /\ req.part.text = medicalReport]_vars

C25_Witness ==
  /\ \E req \in analyzeInflight :
       req.part.kind = "file" /\ req.part.file = "scan.png"
  /\ Trim(medicalReport) # <<>>
  /\ selectedFile = "scan.png"

\* C26: isAnalyzing is true exactly while the request is in flight; a
\* failed request sets the error message and leaves analysis as it was; a
\* successful one replaces analysis by the returned text, with error empty.
C26_AnalyzeOutcome ==
  /\ [](isAnalyzing <=> analyzeInflight # {})
  /\ [][\A req \in analyzeInflight : \A r \in AnalyzeResponses :
          AnalyzeRespond(req, r) =>
            /\ ~isAnalyzing'
            /\ IF r.rejected \/ ~r.ok
                 THEN error' = AnalyzeFailedMessage /\ analysis' = analysis
                 ELSE analysis' = r.analysis /\ error' = ""]_vars

C26_Witness ==
  /\ reportLast = "respond" /\ analyzeSent = 2
  /\ error = AnalyzeFailedMessage /\ analysis = "Findings"
  /\ ~isAnalyzing

\* C27: handleRemoveImage sets selectedImage and selectedFile to null and
\* leaves medicalReport, analysis, error and isAnalyzing as they are.
C27_RemoveImageFrame ==
  [][handleRemoveImage =>
       /\ selectedImage' = NULL /\ selectedFile' = NULL
       /\ UNCHANGED <<medicalReport, analysis, error, isAnalyzing>>]_vars

C27_Witness ==
  /\ reportLast = "remove" /\ selectedImage = NULL /\ selectedFile = NULL
  /\ medicalReport = <<"b", "p">> /\ analysis = "Findings"
  /\ error = AnalyzeFailedMessage

(***************************************************************************)
(* TranslationPanel over its whole life: the session and its unmount.      *)
(***************************************************************************)
\* the view unmounts: React runs the cleanup of the last effect,
\* clearTimeout(timeoutId); nothing aborts the fetch calls
Unmount ==
  /\ mounted
  /\ mounted' = FALSE
  /\ timers' = ClearTimeout(timers)
  /\ UNCHANGED <<sourceLanguage, targetLanguage, originalText, translatedText,
                 isTranslating, inflight, nSent, lastReq, toastCount,
                 latestReturn, allOk, burstSent, burstLen>>
  /\ NoteOther
  /\ PanelFrame

InitUnmount == PanelInit /\ RouteIdle /\ ToastInit /\ ChatInit /\ ReportInit
NextUnmount == Next \/ Unmount
SpecUnmount == InitUnmount /\ [][NextUnmount]_vars

\* C28: the unmount cancels the pending debounce timer, no translate
\* request is dispatched once the panel is unmounted, and the unmount leaves
\* the requests in flight as they are.
C28_UnmountCancelsTimer ==
  /\ [](~mounted => timers = {})
  /\ [][~mounted' => nSent' = nSent]_vars
  /\ [][Unmount => (timers' = {} /\ inflight' = inflight)]_vars

C28_Witness ==
  /\ ~mounted /\ inflight = {1} /\ nSent = 1
  /\ lastReq.text = "Hello" /\ originalText = "Hola"
====
